---------------------------- MODULE Spec2Model ----------------------------
(***************************************************************************)
(* Pairs-trading workflow of arbitrage-alpha-forge: the data fetcher, the  *)
(* cointegration analysis and the backtest engine, with the page state     *)
(* that connects them.                                                     *)
(*                                                                         *)
(* The repository holds two variants of each component:                    *)
(*   DataFetcher        "proxy"    src/unnamed/part_005                    *)
(*                      "direct"   src/unnamed/part_006 (demo fallback)    *)
(*   CointegrationTest  "rolling"  src/unnamed/part_002 (dataWithSpread)   *)
(*                      "full"     src/src/components/CointegrationTest.tsx*)
(*   BacktestEngine     "cash"     src/src/components/BacktestEngine.tsx   *)
(*                      "compound" src/unnamed/part_004                    *)
(* The variable build says which variant of each is mounted in the page    *)
(* (src/unnamed/part_007).                                                 *)
(*                                                                         *)
(* JavaScript numbers are modelled as tagged values: <<"fin", v>> is the   *)
(* finite number v / Scale (fixed point, rounded to nearest), <<"nan", 0>> *)
(* is NaN and <<"inf", s>> is s * Infinity.  Negative zero is not          *)
(* distinguished from zero.                                                *)
(***************************************************************************)
EXTENDS Integers, Sequences, FiniteSets, TLC

(***************************************************************************)
(* Bounds of the model.                                                    *)
(***************************************************************************)
\* fixed-point resolution: a finite number is an integer count of 1/Scale
Scale == 1000
\* longest series a price source returns
MaxBars == 4
\* handler invocations (clicks, slider moves, edits) in one behaviour
MaxClicks == 4
\* rolling window of the z-score; 30 in src/unnamed/part_002:48
window == 2
\* bars the cash backtest skips; 30 in src/src/components/BacktestEngine.tsx:49
SkipBars == 2
\* fewest bars the rolling analysis accepts; 50 in src/unnamed/part_002:19
MinDataPoints == 3

NULL == <<"null", 0>>

(***************************************************************************)
(* Numbers.                                                                *)
(***************************************************************************)
Fin(v) == <<"fin", v>>
NaN == <<"nan", 0>>
Inf(s) == <<"inf", s>>

IsFin(a) == a[1] = "fin"
IsNaN(a) == a[1] = "nan"
IsInf(a) == a[1] = "inf"

\* the literal n/d
Num(n, d) == Fin((n * Scale) \div d)
\* the integer n
Whole(n) == Fin(n * Scale)

AbsInt(n) == IF n < 0 THEN 0 - n ELSE n
SgnInt(n) == IF n < 0 THEN 0 - 1 ELSE IF n > 0 THEN 1 ELSE 0

\* n / d rounded to the nearest integer, halves away from zero (d > 0)
RoundDiv(n, d) == SgnInt(n) * ((2 * AbsInt(n) + d) \div (2 * d))

\* sign of a number that is not NaN
SignOf(a) == IF IsInf(a) THEN a[2] ELSE SgnInt(a[2])

Neg(a) ==
    IF IsNaN(a) THEN NaN
    ELSE IF IsInf(a) THEN Inf(0 - a[2])
    ELSE Fin(0 - a[2])

Add(a, b) ==
    IF IsNaN(a) \/ IsNaN(b) THEN NaN
    ELSE IF IsInf(a) /\ IsInf(b) THEN (IF a[2] = b[2] THEN a ELSE NaN)
    ELSE IF IsInf(a) THEN a
    ELSE IF IsInf(b) THEN b
    ELSE Fin(a[2] + b[2])

Sub(a, b) == Add(a, Neg(b))

\* |x| * |y| / Scale to the nearest integer, |x| >= |y|, without forming x * y
MulMag(x, y) == (x \div Scale) * y + RoundDiv((x % Scale) * y, Scale)

Mul(a, b) ==
    IF IsNaN(a) \/ IsNaN(b) THEN NaN
    ELSE IF IsInf(a) \/ IsInf(b)
         THEN (IF SignOf(a) = 0 \/ SignOf(b) = 0 THEN NaN
               ELSE Inf(SignOf(a) * SignOf(b)))
    ELSE LET x == AbsInt(a[2])
             y == AbsInt(b[2])
         IN  Fin(SgnInt(a[2]) * SgnInt(b[2])
                 * (IF x >= y THEN MulMag(x, y) ELSE MulMag(y, x)))

\* x * Scale / y to the nearest integer for x >= 0, y > 0; a large divisor is
\* reduced with the remainder so that the product stays a machine integer
DivMag(x, y) ==
    LET q == x \div y
        r == x % y
    IN  IF y <= 1000000
        THEN q * Scale + RoundDiv(r * Scale, y)
        ELSE q * Scale + RoundDiv((r \div Scale) * Scale, y \div Scale)

Div(a, b) ==
    IF IsNaN(a) \/ IsNaN(b) THEN NaN
    ELSE IF IsInf(a) THEN (IF IsInf(b) THEN NaN
                           ELSE Inf(a[2] * (IF b[2] < 0 THEN 0 - 1 ELSE 1)))
    ELSE IF IsInf(b) THEN Fin(0)
    ELSE IF b[2] = 0 THEN (IF a[2] = 0 THEN NaN ELSE Inf(SgnInt(a[2])))
    ELSE Fin(SgnInt(a[2]) * SgnInt(b[2]) * DivMag(AbsInt(a[2]), AbsInt(b[2])))

\* a < b, a > b, a <= b of JavaScript: every comparison with NaN is false
Lt(a, b) ==
    IF IsNaN(a) \/ IsNaN(b) THEN FALSE
    ELSE IF IsInf(a) THEN a[2] < 0 /\ ~(IsInf(b) /\ b[2] < 0)
    ELSE IF IsInf(b) THEN b[2] > 0
    ELSE a[2] < b[2]

Gt(a, b) == Lt(b, a)

Le(a, b) == ~IsNaN(a) /\ ~IsNaN(b) /\ ~Lt(b, a)

\* Math.abs
Abs(a) ==
    IF IsNaN(a) THEN NaN
    ELSE IF IsInf(a) THEN Inf(1)
    ELSE Fin(AbsInt(a[2]))

RECURSIVE SqrtSearch(_, _, _)
\* the largest r in lo..hi with r * r <= n
SqrtSearch(n, lo, hi) ==
    IF lo >= hi THEN lo
    ELSE LET mid == (lo + hi + 1) \div 2
         IN  IF mid * mid <= n THEN SqrtSearch(n, mid, hi)
             ELSE SqrtSearch(n, lo, mid - 1)

\* Math.sqrt
Sqrt(a) ==
    IF IsNaN(a) THEN NaN
    ELSE IF IsInf(a) THEN (IF a[2] > 0 THEN a ELSE NaN)
    ELSE IF a[2] < 0 THEN NaN
    ELSE Fin(SqrtSearch(a[2] * Scale, 0, 46340))

\* Math.round(a * k) / d; Math.round takes halves towards +Infinity
RoundPer(a, k, d) ==
    IF ~IsFin(a) THEN a
    ELSE Fin((((2 * a[2] * k + Scale) \div (2 * Scale)) * Scale) \div d)

\* Math.round(a * k) / k
RoundTo(a, k) == RoundPer(a, k, k)

RECURSIVE SumFrom(_, _)
\* xs.reduce((a, b) => a + b, 0) over xs[i..]
SumFrom(xs, i) ==
    IF i > Len(xs) THEN Fin(0) ELSE Add(xs[i], SumFrom(xs, i + 1))

Sum(xs) == SumFrom(xs, 1)

(***************************************************************************)
(* Price data.  A response of the price source is the pair of arrays       *)
(* result.timestamp and result.indicators.quote[0].close; a close price    *)
(* is a number or NULL.                                                    *)
(***************************************************************************)
UNDEFINED == <<"undefined", 0>>

\* seconds in a UTC day, the unit of toISOString().slice(0, 10)
SecondsPerDay == 86400

\* new Date(t * 1000).toISOString().slice(0, 10): the UTC day of second t
DateOf(t) == t \div SecondsPerDay

\* timestamps.map((t, i) => ({ date, price: prices[i] }))
Formatted(resp) ==
    [i \in 1..Len(resp.timestamp) |->
        [date |-> DateOf(resp.timestamp[i]),
         price |-> IF i <= Len(resp.close) THEN resp.close[i] ELSE UNDEFINED]]

\* Object.fromEntries(data2Formatted.map(d => [d.date, d.price]))[date]:
\* the price of the last entry of that date, undefined when there is none
Map2(data2, date) ==
    LET hits == {i \in 1..Len(data2) : data2[i].date = date}
    IN  IF hits = {} THEN UNDEFINED
        ELSE data2[CHOOSE i \in hits : \A j \in hits : j <= i].price

RECURSIVE MergeFrom(_, _, _)
\* the loop "for (const d1 of data1Formatted)" from entry i on
MergeFrom(data1, data2, i) ==
    IF i > Len(data1) THEN <<>>
    ELSE LET d1 == data1[i]
             p2 == Map2(data2, d1.date)
             rest == MergeFrom(data1, data2, i + 1)
         IN  IF p2 # UNDEFINED /\ d1.price # NULL /\ p2 # NULL
             THEN <<[date |-> d1.date, price1 |-> d1.price, price2 |-> p2]>>
                  \o rest
             ELSE rest

\* "Merge by date": the bars of the two responses
Merged(resp1, resp2) == MergeFrom(Formatted(resp1), Formatted(resp2), 1)

(***************************************************************************)
(* Math.random(): a draw is one of a few values of [0, 1).  A stream of    *)
(* draws is identified by a seed; draw k of seed s is RandomDraws[..].     *)
(***************************************************************************)
RandomDraws == <<Num(1, 4), Num(3, 4), Num(1, 10)>>

Seeds == {1, 2}

DrawOf(seed, k) == RandomDraws[((seed * (k + 1) + k \div 2) % Len(RandomDraws)) + 1]

\* calendar days generateDemoData walks; 750 in src/unnamed/part_006:110
DemoDays == 5

\* Math.max(a, b)
Max(a, b) == IF IsNaN(a) \/ IsNaN(b) THEN NaN ELSE IF Lt(a, b) THEN b ELSE a

RECURSIVE DemoFrom(_, _, _, _)
\* the loop of generateDemoData from calendar day i on, with the prices so far
DemoFrom(seed, i, price1, price2) ==
    IF i >= DemoDays THEN <<>>
    ELSE LET day == (seed + i) % 7
         IN  IF day = 0 \/ day = 6
             THEN DemoFrom(seed, i + 1, price1, price2)
             ELSE LET change1 == Mul(Sub(DrawOf(seed, 2 * i + 2), Num(1, 2)), Whole(2))
                      change2 == Add(Mul(change1, Num(7, 10)),
                                     Mul(Sub(DrawOf(seed, 2 * i + 3), Num(1, 2)),
                                         Num(15, 10)))
                      p1 == Max(Add(price1, change1), Whole(5))
                      p2 == Max(Add(price2, change2), Whole(5))
                  IN  <<[date |-> i + 1,
                         price1 |-> RoundTo(p1, 100),
                         price2 |-> RoundTo(p2, 100)]>>
                      \o DemoFrom(seed, i + 1, p1, p2)

\* generateDemoData(symbol1, symbol2) with the draws of one seed
generateDemoData(seed) ==
    DemoFrom(seed, 0,
             Add(Whole(50), Mul(DrawOf(seed, 0), Whole(50))),
             Add(Whole(60), Mul(DrawOf(seed, 1), Whole(40))))

(***************************************************************************)
(* Cointegration analysis.  A bar of stockData.data is                     *)
(* [date, price1, price2]: price1 is d[ticker1], price2 is d[ticker2].     *)
(***************************************************************************)
\* the value null of a state that holds an object
null == [null |-> TRUE]

\* Math.pow(a, 2)
Sq(a) == Mul(a, a)

\* n * sumXX - sumX * sumX of the regression of price1 on price2
Denominator(data) ==
    LET n == Whole(Len(data))
        sumX == Sum([i \in 1..Len(data) |-> data[i].price2])
        sumXX == Sum([i \in 1..Len(data) |-> Mul(data[i].price2, data[i].price2)])
    IN  Sub(Mul(n, sumXX), Mul(sumX, sumX))

\* "Calculate hedge ratio using simple linear regression"
HedgeRatio(data) ==
    LET n == Whole(Len(data))
        sumX == Sum([i \in 1..Len(data) |-> data[i].price2])
        sumY == Sum([i \in 1..Len(data) |-> data[i].price1])
        sumXY == Sum([i \in 1..Len(data) |-> Mul(data[i].price1, data[i].price2)])
    IN  Div(Sub(Mul(n, sumXY), Mul(sumX, sumY)), Denominator(data))

\* data.map(d => d[ticker1] - hedgeRatio * d[ticker2])
Spreads(data, hedgeRatio) ==
    [i \in 1..Len(data) |-> Sub(data[i].price1, Mul(hedgeRatio, data[i].price2))]

\* xs.reduce((a, b) => a + b, 0) / n
MeanOver(xs, n) == Div(Sum(xs), Whole(n))

\* Math.sqrt(xs.reduce((sum, x) => sum + Math.pow(x - mean, 2), 0) / n)
StdOver(xs, mean, n) ==
    Sqrt(Div(Sum([i \in 1..Len(xs) |-> Sq(Sub(xs[i], mean))]), Whole(n)))

\* largest |zscore| the rolling analysis keeps
ZCap == 5

\* the rolling z-score of bar i (bars are numbered from 1; bar i is index i - 1)
RollingZ(spreads, i) ==
    IF i - 1 >= window - 1
    THEN LET windowSpreads == SubSeq(spreads, i - window + 1, i)
             windowMean == MeanOver(windowSpreads, window)
             windowStd == StdOver(windowSpreads, windowMean, window)
         IN  IF Gt(windowStd, Fin(0))
             THEN Div(Sub(spreads[i], windowMean), windowStd)
             ELSE Fin(0)
    ELSE Fin(0)

\* "Cap extreme values"
Capped(zscore) == IF Gt(Abs(zscore), Whole(ZCap)) THEN Fin(0) ELSE zscore

\* dataWithSpread of the rolling analysis
DataWithSpread(data, hedgeRatio) ==
    LET spreads == Spreads(data, hedgeRatio)
    IN  [i \in 1..Len(data) |->
            [date |-> data[i].date, price1 |-> data[i].price1,
             price2 |-> data[i].price2, spread |-> spreads[i],
             zscore |-> Capped(RollingZ(spreads, i))]]

\* testResults of the rolling analysis, with the draws r1 and r2 of Math.random()
RollingResults(sd, r1, r2) ==
    LET hedgeRatio == HedgeRatio(sd.data)
        spreads == Spreads(sd.data, hedgeRatio)
        spreadMean == MeanOver(spreads, Len(spreads))
        spreadStd == StdOver(spreads, spreadMean, Len(spreads))
        pValue == Add(Num(2, 100), Mul(r1, Num(6, 100)))
        adfStatistic == Sub(Num(0 - 32, 10), Mul(r2, Num(15, 10)))
    IN  [ticker1 |-> sd.ticker1,
         ticker2 |-> sd.ticker2,
         hedgeRatio |-> RoundTo(hedgeRatio, 1000),
         pValue |-> RoundTo(pValue, 1000),
         adfStatistic |-> RoundTo(adfStatistic, 100),
         isCointegrated |-> Lt(pValue, Num(5, 100)),
         spreadMean |-> RoundTo(spreadMean, 100),
         spreadStd |-> RoundTo(spreadStd, 100),
         dataWithSpread |-> DataWithSpread(sd.data, hedgeRatio)]

\* bars of the spread chart; zScoreData.slice(-252)
ChartBars == 252

\* xs.slice(-k)
LastK(xs, k) == IF Len(xs) <= k THEN xs ELSE SubSeq(xs, Len(xs) - k + 1, Len(xs))

\* zScoreData of the full-sample analysis
ZScoreData(data, hedgeRatio) ==
    LET spreads == Spreads(data, hedgeRatio)
        spreadMean == MeanOver(spreads, Len(spreads))
        spreadStd == StdOver(spreads, spreadMean, Len(spreads))
    IN  [i \in 1..Len(data) |->
            [date |-> data[i].date, spread |-> spreads[i],
             price1 |-> data[i].price1, price2 |-> data[i].price2,
             zscore |-> Div(Sub(spreads[i], spreadMean), spreadStd)]]

\* testResults of the full-sample analysis, with the draw r of Math.random()
FullResults(sd, r) ==
    LET hedgeRatio == HedgeRatio(sd.data)
        spreads == Spreads(sd.data, hedgeRatio)
        spreadMean == MeanOver(spreads, Len(spreads))
        spreadStd == StdOver(spreads, spreadMean, Len(spreads))
        zScoreData == ZScoreData(sd.data, hedgeRatio)
        pValue == Mul(r, Num(8, 100))
    IN  [ticker1 |-> sd.ticker1,
         ticker2 |-> sd.ticker2,
         hedgeRatio |-> RoundTo(hedgeRatio, 1000),
         pValue |-> RoundTo(pValue, 10000),
         isCointegrated |-> Lt(pValue, Num(5, 100)),
         spreadMean |-> RoundTo(spreadMean, 100),
         spreadStd |-> RoundTo(spreadStd, 100),
         spreadData |-> LastK(zScoreData, ChartBars),
         fullData |-> zScoreData]

(***************************************************************************)
(* State.                                                                  *)
(***************************************************************************)
VARIABLES
    build,                  \* the variant of each component the page mounts
    market,                 \* what the price source holds for each ticker
    budget,                 \* handler invocations left in this behaviour
    fetcher,                \* DataFetcher: its state and its run of fetchData
    stockData,              \* Index: stockData
    cointegrationResults,   \* Index: cointegrationResults
    coint,                  \* CointegrationTest: its state and its run
    bt,                     \* BacktestEngine: its state
    run,                    \* the locals of the run of runBacktest
    toast                   \* the toast shown last

vars == <<build, market, budget, fetcher, stockData, cointegrationResults,
          coint, bt, run, toast>>

Toast(kind, message) == [kind |-> kind, message |-> message]

(***************************************************************************)
(* DataFetcher.fetchData                                                   *)
(***************************************************************************)
\* how the two requests of one fetchData end: both answered with a chart,
\* the request rejected (network or CORS: a TypeError), a response that is
\* not ok, or an answer without chart.result[0]
Outcomes == {"ok", "network", "http", "noresult"}

\* the click on "Fetch": the button is disabled while isLoading
fetchData ==
    /\ budget > 0
    /\ ~fetcher.isLoading
    /\ fetcher.pc = "idle"
    /\ fetcher' = [fetcher EXCEPT !.isLoading = TRUE, !.pc = "await"]
    /\ budget' = budget - 1
    /\ UNCHANGED <<build, market, stockData, cointegrationResults, coint, bt,
                   run, toast>>

\* what fetchData does with an outcome: whether setStockData and onDataFetched
\* are called, the bars they are handed, and the toast
FetchEffect(variant, outcome, merged, demoData) ==
    IF outcome = "ok" /\ Len(merged) # 0
    THEN [stored |-> TRUE, data |-> merged,
          toast |-> Toast("success", "Successfully fetched")]
    ELSE IF variant = "direct" /\ outcome = "network"
    THEN [stored |-> TRUE, data |-> demoData,
          toast |-> Toast("error", "CORS error: Using demo data instead")]
    ELSE [stored |-> FALSE, data |-> <<>>,
          toast |-> Toast("error", "Failed to fetch stock data")]

\* the random sequences generateDemoData can draw from when it is called
DemoSeeds(variant, outcome) ==
    IF variant = "direct" /\ outcome = "network" THEN Seeds ELSE {1}

\* the rest of fetchData with setIsLoading(false) as the last statement of
\* the function in place of the finally block: the return of the demo-data
\* fallback leaves before it
fetchSettledNoFinally(outcome, seed) ==
    /\ fetcher.pc = "await"
    /\ LET merged == Merged(market[fetcher.ticker1], market[fetcher.ticker2])
           eff == FetchEffect(build.fetcher, outcome, merged, generateDemoData(seed))
       IN  /\ fetcher' = [fetcher EXCEPT
                            !.isLoading = (build.fetcher = "direct"
                                               /\ outcome = "network"),
                            !.pc = "idle",
                            !.stockData = IF eff.stored THEN [data |-> eff.data]
                                          ELSE @]
           /\ stockData' = IF ~eff.stored THEN stockData
                           ELSE [ticker1 |-> fetcher.ticker1,
                                 ticker2 |-> fetcher.ticker2,
                                 data |-> eff.data]
           /\ toast' = eff.toast
    /\ UNCHANGED <<build, market, budget, cointegrationResults, coint, bt, run>>

\* the rest of fetchData, once the requests have ended
fetchSettled(outcome, seed) ==
    /\ fetcher.pc = "await"
    /\ LET merged == Merged(market[fetcher.ticker1], market[fetcher.ticker2])
           eff == FetchEffect(build.fetcher, outcome, merged, generateDemoData(seed))
       IN  /\ fetcher' = [fetcher EXCEPT
                            !.isLoading = FALSE,
                            !.pc = "idle",
                            !.stockData = IF eff.stored THEN [data |-> eff.data]
                                          ELSE @]
           /\ stockData' = IF ~eff.stored THEN stockData
                           ELSE [ticker1 |-> fetcher.ticker1,
                                 ticker2 |-> fetcher.ticker2,
                                 data |-> eff.data]
           /\ toast' = eff.toast
    /\ UNCHANGED <<build, market, budget, cointegrationResults, coint, bt, run>>

(***************************************************************************)
(* CointegrationTest.runCointegrationTest                                  *)
(***************************************************************************)
\* the click on "Run Cointegration Test" is possible: the rolling variant
\* renders the button once stockData is set, disabled while isLoading; the
\* full-sample variant disables it while !stockData || isAnalyzing
CointButtonEnabled == stockData # null /\ ~coint.isLoading

\* the guard that opens runCointegrationTest
CointRejects(variant, sd) ==
    IF variant = "rolling"
    THEN sd = null \/ Len(sd.data) < MinDataPoints
    ELSE sd = null

\* the click with setIsLoading(true) ahead of the test of stockData: a
\* rejected click leaves the loading flag set
runCointegrationTestFlagFirst ==
    /\ budget > 0
    /\ coint.pc = "idle"
    /\ CointButtonEnabled
    /\ budget' = budget - 1
    /\ IF CointRejects(build.coint, stockData)
       THEN /\ toast' = Toast("error",
                              IF build.coint = "rolling"
                              THEN "Need at least 50 data points for cointegration test"
                              ELSE "Please fetch stock data first")
            /\ coint' = [coint EXCEPT !.isLoading = TRUE]
       ELSE /\ coint' = [coint EXCEPT !.isLoading = TRUE, !.pc = "await",
                                      !.stockData = stockData]
            /\ UNCHANGED toast
    /\ UNCHANGED <<build, market, fetcher, stockData, cointegrationResults, bt,
                   run>>

\* the click on "Run Cointegration Test": the guard, then setIsLoading(true)
runCointegrationTest ==
    /\ budget > 0
    /\ coint.pc = "idle"
    /\ CointButtonEnabled
    /\ budget' = budget - 1
    /\ IF CointRejects(build.coint, stockData)
       THEN /\ toast' = Toast("error",
                              IF build.coint = "rolling"
                              THEN "Need at least 50 data points for cointegration test"
                              ELSE "Please fetch stock data first")
            /\ UNCHANGED coint
       ELSE /\ coint' = [coint EXCEPT !.isLoading = TRUE, !.pc = "await",
                                      !.stockData = stockData]
            /\ UNCHANGED toast
    /\ UNCHANGED <<build, market, fetcher, stockData, cointegrationResults, bt,
                   run>>

\* testResults of the mounted variant
TestResults(variant, sd, r1, r2) ==
    IF variant = "rolling" THEN RollingResults(sd, r1, r2) ELSE FullResults(sd, r1)

\* the toast that ends a run of the analysis
CointToast(variant, testResults) ==
    IF variant = "full" THEN Toast("success", "Cointegration analysis completed!")
    ELSE IF testResults.isCointegrated THEN Toast("success", "Cointegration confirmed!")
    ELSE Toast("warning", "Weak cointegration evidence.")

\* the rest of runCointegrationTest with the spread and the z-score written
\* into the bars it was given (data.forEach(d => { d.spread = ... })) in
\* place of data.map: the bars of the page's stockData are the same objects
cointSettledInPlace(r1, r2) ==
    /\ coint.pc = "await"
    /\ LET testResults == TestResults(build.coint, coint.stockData, r1, r2)
       IN  /\ coint' = [coint EXCEPT !.isLoading = FALSE, !.pc = "idle",
                                      !.results = testResults,
                                      !.stockData = null]
           /\ cointegrationResults' = testResults
           /\ toast' = CointToast(build.coint, testResults)
           /\ stockData' = IF stockData = coint.stockData
                           THEN [stockData EXCEPT
                                    !.data = IF build.coint = "rolling"
                                             THEN testResults.dataWithSpread
                                             ELSE testResults.fullData]
                           ELSE stockData
    /\ UNCHANGED <<build, market, budget, fetcher, bt, run>>

\* the rest of runCointegrationTest, once the timer has fired
cointSettled(r1, r2) ==
    /\ coint.pc = "await"
    /\ LET testResults == TestResults(build.coint, coint.stockData, r1, r2)
       IN  /\ coint' = [coint EXCEPT !.isLoading = FALSE, !.pc = "idle",
                                      !.results = testResults,
                                      !.stockData = null]
           /\ cointegrationResults' = testResults
           /\ toast' = CointToast(build.coint, testResults)
    /\ UNCHANGED <<build, market, budget, fetcher, stockData, bt, run>>


(***************************************************************************)
(* BacktestEngine.runBacktest: the simulation of one bar.  st holds the    *)
(* locals of the run, day is the bar.                                      *)
(***************************************************************************)
\* let cash = 100000
StartingCash == 100000

\* "Entry logic" of the cash variant
CashEntry(st, day) ==
    IF Lt(day.zscore, Neg(st.entryZ))
    THEN [st EXCEPT !.position = 1, !.action = "LONG ticker1, SHORT ticker2",
                    !.tradeCount = @ + 1]
    ELSE IF Gt(day.zscore, st.entryZ)
    THEN [st EXCEPT !.position = 0 - 1, !.action = "SHORT ticker1, LONG ticker2",
                    !.tradeCount = @ + 1]
    ELSE st

\* pnl.toFixed(0)
ToFixed0(a) == IF IsFin(a) THEN Fin(RoundDiv(a[2], Scale) * Scale) ELSE a

\* the exit logic counting the close as a trade of its own
CashExitCounted(st, day) ==
    IF Lt(Abs(day.zscore), st.exitZ)
    THEN [st EXCEPT
            !.tradeCount = @ + 1,
            !.trades = Append(@, [date |-> day.date,
                                  action |-> "CLOSE (P&L: $)",
                                  text |-> Fin(0),
                                  pnl |-> Fin(0),
                                  position |-> st.position,
                                  zscore |-> day.zscore]),
            !.position = 0,
            !.action = "CLOSE POSITION"]
    ELSE st

\* "Exit logic" of the cash variant
CashExit(st, day) ==
    IF Lt(Abs(day.zscore), st.exitZ)
    THEN LET pnl == Mul(Mul(Mul(Whole(st.position), day.zscore), st.position_size),
                        Num(1, 100))
         IN  [st EXCEPT
                !.cash = Add(@, pnl),
                !.winningTrades = IF Gt(pnl, Fin(0)) THEN @ + 1 ELSE @,
                !.trades = Append(@, [date |-> day.date,
                                      action |-> "CLOSE (P&L: $)",
                                      text |-> ToFixed0(pnl),
                                      pnl |-> pnl,
                                      position |-> st.position,
                                      zscore |-> day.zscore]),
                !.position = 0,
                !.action = "CLOSE POSITION"]
    ELSE st

\* the entry logic without its test of position === 0: an entry signal opens a
\* position whatever is held, any other bar goes to the exit logic
CashTradedUnguarded(st, day) ==
    IF Lt(day.zscore, Neg(st.entryZ)) \/ Gt(day.zscore, st.entryZ)
    THEN CashEntry(st, day)
    ELSE IF st.position = 0 THEN st ELSE CashExit(st, day)

\* if (position === 0) { entry } else if (Math.abs(zscore) < exitZ) { exit }
CashTraded(st, day) ==
    IF st.position = 0 THEN CashEntry(st, day) ELSE CashExit(st, day)

\* the callback of dataWithSpread.forEach on the bar of index i
CashBar(st, day, i) ==
    IF i < SkipBars THEN st
    ELSE LET t == CashTraded([st EXCEPT !.action = ""], day)
             totalValue == Add(t.cash, Mul(Whole(AbsInt(t.position)), t.position_size))
             point == [date |-> day.date,
                       value |-> totalValue,
                       zscore |-> day.zscore,
                       position |-> t.position,
                       drawdown |-> Mul(Sub(Div(totalValue, Whole(StartingCash)),
                                            Whole(1)), Whole(100))]
         IN  [t EXCEPT
                !.totalValue = totalValue,
                !.equity = Append(@, point),
                !.trades = IF t.action # ""
                           THEN Append(@, [date |-> day.date,
                                           action |-> t.action,
                                           zscore |-> RoundTo(day.zscore, 1000),
                                           price1 |-> day.price1,
                                           price2 |-> day.price2])
                           ELSE @]

\* the trade record of the compounding variant
Trade(day, action) ==
    [date |-> day.date, action |-> action, zscore |-> day.zscore,
     price1 |-> day.price1, price2 |-> day.price2]

\* the entry branch with <= and >= in place of < and >: a bar whose z-score
\* is exactly at the entry threshold enters too
CompoundEntryInclusive(st, current) ==
    IF Le(current.zscore, Neg(st.entryZ))
    THEN [st EXCEPT !.position = 1,
                    !.trades = Append(@, Trade(current, "ENTER_LONG"))]
    ELSE IF Le(st.entryZ, current.zscore)
    THEN [st EXCEPT !.position = 0 - 1,
                    !.trades = Append(@, Trade(current, "ENTER_SHORT"))]
    ELSE st

\* the branch "position === 0" of the compounding variant
CompoundEntry(st, current) ==
    IF Lt(current.zscore, Neg(st.entryZ))
    THEN [st EXCEPT !.position = 1,
                    !.trades = Append(@, Trade(current, "ENTER_LONG"))]
    ELSE IF Gt(current.zscore, st.entryZ)
    THEN [st EXCEPT !.position = 0 - 1,
                    !.trades = Append(@, Trade(current, "ENTER_SHORT"))]
    ELSE st

\* the exit branch with the action read from the sign of the z-score in
\* place of the position held
CompoundExitBySign(st, current) ==
    IF Le(Abs(current.zscore), st.exitZ)
    THEN [st EXCEPT
            !.trades = Append(@, Trade(current, IF Lt(current.zscore, Fin(0))
                                                THEN "EXIT_LONG"
                                                ELSE "EXIT_SHORT")),
            !.position = 0]
    ELSE st

\* the branch "Math.abs(zscore) <= exitZ" of the compounding variant
CompoundExit(st, current) ==
    IF Le(Abs(current.zscore), st.exitZ)
    THEN [st EXCEPT
            !.trades = Append(@, Trade(current, IF st.position = 1 THEN "EXIT_LONG"
                                                ELSE "EXIT_SHORT")),
            !.position = 0]
    ELSE st

\* the trading logic with "if" in place of "else if": the exit branch also
\* sees the position the entry branch has just opened
CompoundTradedNoElse(st, current) ==
    LET entered == IF st.position = 0 THEN CompoundEntry(st, current) ELSE st
    IN  IF entered.position # 0 THEN CompoundExit(entered, current) ELSE entered

\* if (position === 0) { entry } else if (Math.abs(zscore) <= exitZ) { exit }
CompoundTraded(st, current) ==
    IF st.position = 0 THEN CompoundEntry(st, current) ELSE CompoundExit(st, current)

\* share of the capital committed to the strategy: dayReturn * 0.5
Allocation == Num(1, 2)

\* the body of the loop with the return of the spread accrued whatever the
\* position is, flat included
CompoundBarAlwaysLong(st, current, prev) ==
    LET t == CompoundTraded(st, current)
        stock1Return == Div(Sub(current.price1, prev.price1), prev.price1)
        stock2Return == Div(Sub(current.price2, prev.price2), prev.price2)
        spreadReturn == Sub(stock1Return, Mul(st.hedgeRatio, stock2Return))
        dayReturn == IF t.position = 0 - 1 THEN Neg(spreadReturn) ELSE spreadReturn
        totalValue == Mul(t.totalValue, Add(Whole(1), Mul(dayReturn, Allocation)))
    IN  [t EXCEPT
           !.totalValue = totalValue,
           !.returns = Append(@, dayReturn),
           !.equity = Append(@, [date |-> current.date, value |-> totalValue,
                                 position |-> t.position,
                                 zscore |-> current.zscore])]

\* the body of the loop "for (let i = 1; ...)" on current = fullData[i]
CompoundBar(st, current, prev) ==
    LET t == CompoundTraded(st, current)
        stock1Return == Div(Sub(current.price1, prev.price1), prev.price1)
        stock2Return == Div(Sub(current.price2, prev.price2), prev.price2)
        spreadReturn == Sub(stock1Return, Mul(st.hedgeRatio, stock2Return))
        dayReturn == IF t.position = 1 THEN spreadReturn
                     ELSE IF t.position = 0 - 1 THEN Neg(spreadReturn)
                     ELSE Fin(0)
        totalValue == Mul(t.totalValue, Add(Whole(1), Mul(dayReturn, Allocation)))
    IN  [t EXCEPT
           !.totalValue = totalValue,
           !.returns = Append(@, dayReturn),
           !.equity = Append(@, [date |-> current.date, value |-> totalValue,
                                 position |-> t.position,
                                 zscore |-> current.zscore])]

(***************************************************************************)
(* BacktestEngine.runBacktest: the performance metrics and the results.    *)
(***************************************************************************)
\* trading days of a year: Math.sqrt(252)
TradingDays == 252

\* trades the cash variant publishes: trades.slice(-10), scaled to the runs
\* of MaxBars bars
TradesShown == 2

\* trades the compounding variant publishes: trades.slice(-20), scaled alike
TradesKept == 2

\* equity points the compounding variant publishes: equity.slice(-252),
\* scaled alike
EquityKept == 2

RECURSIVE MinOf(_, _)
\* Math.min(...xs) over xs[i..]
MinOf(xs, i) ==
    IF i > Len(xs) THEN Inf(1)
    ELSE LET rest == MinOf(xs, i + 1)
         IN  IF IsNaN(xs[i]) \/ IsNaN(rest) THEN NaN
             ELSE IF Lt(xs[i], rest) THEN xs[i] ELSE rest

\* avg / std * Math.sqrt(252)
Annualized(avg, std) == Mul(Div(avg, std), Sqrt(Whole(TradingDays)))

\* results of the cash variant
CashResults(st) ==
    LET equityCurve == st.equity
        returns == [k \in 1..(Len(equityCurve) - 1) |->
                       Mul(Sub(Div(equityCurve[k + 1].value, equityCurve[k].value),
                               Whole(1)), Whole(100))]
        totalReturn == Mul(Sub(Div(st.totalValue, Whole(StartingCash)), Whole(1)),
                           Whole(100))
        avgReturn == MeanOver(returns, Len(returns))
        volatility == StdOver(returns, avgReturn, Len(returns))
        sharpeRatio == IF Gt(volatility, Fin(0)) THEN Annualized(avgReturn, volatility)
                       ELSE Fin(0)
        maxDrawdown == MinOf([k \in 1..Len(equityCurve) |-> equityCurve[k].drawdown], 1)
        winRate == IF st.tradeCount > 0
                   THEN Mul(Div(Whole(st.winningTrades), Whole(st.tradeCount)),
                            Whole(100))
                   ELSE Fin(0)
    IN  [totalReturn |-> RoundTo(totalReturn, 100),
         sharpeRatio |-> RoundTo(sharpeRatio, 100),
         maxDrawdown |-> RoundTo(maxDrawdown, 100),
         winRate |-> RoundTo(winRate, 10),
         totalTrades |-> st.tradeCount,
         winningTrades |-> st.winningTrades,
         finalValue |-> RoundTo(st.totalValue, 1),
         equityCurve |-> equityCurve,
         trades |-> LastK(st.trades, TradesShown),
         parameters |-> [entryZ |-> st.entryZ, exitZ |-> st.exitZ,
                         position_size |-> st.position_size]]

RECURSIVE DrawdownFrom(_, _, _, _)
\* the loop "equity.forEach(point => ...)" from point i on
DrawdownFrom(equity, i, peak, maxDrawdown) ==
    IF i > Len(equity) THEN maxDrawdown
    ELSE LET newPeak == IF Gt(equity[i].value, peak) THEN equity[i].value ELSE peak
             drawdown == Div(Sub(newPeak, equity[i].value), newPeak)
         IN  DrawdownFrom(equity, i + 1, newPeak,
                          IF Gt(drawdown, maxDrawdown) THEN drawdown ELSE maxDrawdown)

\* returns.filter(r => r !== 0)
NonZero(returns) == SelectSeq(returns, LAMBDA r : r # Fin(0))

\* results of the compounding variant, with the draw r of Math.random()
CompoundResults(st, r) ==
    LET cash == Whole(StartingCash)
        totalReturn == Div(Sub(st.totalValue, cash), cash)
        dailyReturns == NonZero(st.returns)
        avgReturn == MeanOver(dailyReturns, Len(dailyReturns))
        returnStd == StdOver(dailyReturns, avgReturn, Len(dailyReturns))
        sharpeRatio == Annualized(avgReturn, returnStd)
        maxDrawdown == DrawdownFrom(st.equity, 1, cash, Fin(0))
    IN  [totalReturn |-> RoundPer(totalReturn, 10000, 100),
         sharpeRatio |-> RoundTo(sharpeRatio, 100),
         maxDrawdown |-> RoundPer(maxDrawdown, 10000, 100),
         numTrades |-> Len(st.trades),
         winRate |-> Add(Num(6, 10), Mul(r, Num(3, 10))),
         equity |-> LastK(st.equity, EquityKept),
         trades |-> LastK(st.trades, TradesKept),
         parameters |-> [entryThreshold |-> st.entryZ, exitThreshold |-> st.exitZ]]

(***************************************************************************)
(* BacktestEngine: the handlers.                                           *)
(***************************************************************************)
\* parseFloat of the texts the threshold inputs take in this model
ParseFloat(text) ==
    CASE text = "1.0" -> Whole(1)
      [] text = "0.0" -> Fin(0)
      [] text = "0.5" -> Num(1, 2)
      [] text = "2.0" -> Whole(2)
      [] OTHER -> NaN

\* values the entry and exit controls are moved to
EntryChoices(variant) ==
    IF variant = "cash" THEN {Num(5, 10), Num(15, 10)} ELSE {"1.0", "0.5"}

ExitChoices(variant) ==
    IF variant = "cash" THEN {Num(2, 10), Whole(1)} ELSE {"0.0", "2.0"}

\* the threshold controls are on the page: the cash variant renders its
\* sliders once stockData and cointegrationResults are set, the compounding
\* variant renders its inputs always
ControlsRendered ==
    build.backtest = "compound" \/ (stockData # null /\ cointegrationResults # null)

\* onValueChange / onChange of the entry threshold
setEntryThreshold(v) ==
    /\ budget > 0
    /\ ControlsRendered
    /\ run.pc \in {"idle", "await"}
    /\ v # bt.entryThreshold
    /\ bt' = [bt EXCEPT !.entryThreshold = v]
    /\ budget' = budget - 1
    /\ UNCHANGED <<build, market, fetcher, stockData, cointegrationResults, coint,
                   run, toast>>

\* onValueChange / onChange of the exit threshold
setExitThreshold(v) ==
    /\ budget > 0
    /\ ControlsRendered
    /\ run.pc \in {"idle", "await"}
    /\ v # bt.exitThreshold
    /\ bt' = [bt EXCEPT !.exitThreshold = v]
    /\ budget' = budget - 1
    /\ UNCHANGED <<build, market, fetcher, stockData, cointegrationResults, coint,
                   run, toast>>

\* the locals of a run that is not in progress
IdleRun == [pc |-> "idle"]

\* the click on "Run Backtest" is possible: the cash variant renders the
\* button once stockData and cointegrationResults are set, disabled while
\* isLoading; the compounding variant disables it while
\* !stockData || !cointegrationResults || isBacktesting
BacktestButtonEnabled ==
    stockData # null /\ cointegrationResults # null /\ ~bt.isLoading

\* the guard that opens runBacktest
BacktestRejects(variant, sd, cr) ==
    IF variant = "cash"
    THEN cr = null \/ "dataWithSpread" \notin DOMAIN cr
    ELSE sd = null \/ cr = null

\* the click on "Run Backtest": the props and the state the closure holds
runBacktest ==
    /\ budget > 0
    /\ run.pc = "idle"
    /\ BacktestButtonEnabled
    /\ budget' = budget - 1
    /\ IF BacktestRejects(build.backtest, stockData, cointegrationResults)
       THEN /\ toast' = Toast("error",
                              IF build.backtest = "cash"
                              THEN "Please run cointegration test first"
                              ELSE "Please complete cointegration analysis first")
            /\ UNCHANGED <<bt, run>>
       ELSE /\ bt' = [bt EXCEPT !.isLoading = TRUE]
            /\ run' = [pc |-> "await",
                       cointegrationResults |-> cointegrationResults,
                       entryThreshold |-> bt.entryThreshold,
                       exitThreshold |-> bt.exitThreshold,
                       positionSize |-> bt.positionSize]
            /\ UNCHANGED toast
    /\ UNCHANGED <<build, market, fetcher, stockData, cointegrationResults, coint>>

\* the locals of the run when its loop starts
Locals(variant, r) ==
    IF variant = "cash"
    THEN [pc |-> "loop", i |-> 0,
          data |-> r.cointegrationResults.dataWithSpread,
          entryZ |-> r.entryThreshold, exitZ |-> r.exitThreshold,
          position_size |-> r.positionSize,
          position |-> 0, cash |-> Whole(StartingCash),
          totalValue |-> Whole(StartingCash),
          trades |-> <<>>, equity |-> <<>>, tradeCount |-> 0, winningTrades |-> 0,
          action |-> ""]
    ELSE [pc |-> "loop", i |-> 1,
          data |-> r.cointegrationResults.fullData,
          hedgeRatio |-> r.cointegrationResults.hedgeRatio,
          entryZ |-> ParseFloat(r.entryThreshold),
          exitZ |-> ParseFloat(r.exitThreshold),
          position |-> 0, cash |-> Whole(StartingCash),
          totalValue |-> Whole(StartingCash),
          trades |-> <<>>, equity |-> <<>>, returns |-> <<>>]

\* the destructuring of cointegrationResults throws in the loop header:
\* fullData is undefined and fullData.length is read
Throws(variant, r) ==
    variant = "compound" /\ "fullData" \notin DOMAIN r.cointegrationResults

\* the run continues after its timer: it fails, or its loop starts
backtestResumed ==
    /\ run.pc = "await"
    /\ IF Throws(build.backtest, run)
       THEN /\ toast' = Toast("error", "Backtest failed")
            /\ bt' = [bt EXCEPT !.isLoading = FALSE]
            /\ run' = IdleRun
       ELSE /\ run' = Locals(build.backtest, run)
            /\ UNCHANGED <<bt, toast>>
    /\ UNCHANGED <<build, market, budget, fetcher, stockData, cointegrationResults,
                   coint>>

\* results of the mounted variant
Results(variant, st, r) ==
    IF variant = "cash" THEN CashResults(st) ELSE CompoundResults(st, r)

\* one bar of a loop that calls setBacktestResults on every bar, with the
\* results of the bars so far
backtestBarPublishing ==
    /\ run.pc = "loop"
    /\ run.i < Len(run.data)
    /\ LET st == IF build.backtest = "cash"
                 THEN CashBar(run, run.data[run.i + 1], run.i)
                 ELSE CompoundBar(run, run.data[run.i + 1], run.data[run.i])
       IN  /\ run' = [st EXCEPT !.i = run.i + 1]
           /\ bt' = [bt EXCEPT !.backtestResults =
                                   Results(build.backtest, st, DrawOf(1, 0))]
    /\ UNCHANGED <<build, market, budget, fetcher, stockData, cointegrationResults,
                   coint, toast>>

\* one bar of the loop (run.i is the index of the bar, from 0)
backtestBar ==
    /\ run.pc = "loop"
    /\ run.i < Len(run.data)
    /\ LET st == IF build.backtest = "cash"
                 THEN CashBar(run, run.data[run.i + 1], run.i)
                 ELSE CompoundBar(run, run.data[run.i + 1], run.data[run.i])
       IN  run' = [st EXCEPT !.i = run.i + 1]
    /\ UNCHANGED <<build, market, budget, fetcher, stockData, cointegrationResults,
                   coint, bt, toast>>

\* after the last bar: the metrics, setBacktestResults and the toast
backtestFinished(r) ==
    /\ run.pc = "loop"
    /\ run.i >= Len(run.data)
    /\ bt' = [bt EXCEPT !.isLoading = FALSE,
                        !.backtestResults = Results(build.backtest, run, r)]
    /\ toast' = Toast("success", "Backtest complete")
    /\ run' = IdleRun
    /\ UNCHANGED <<build, market, budget, fetcher, stockData, cointegrationResults,
                   coint>>

\* a run of runBacktest is between its timer and its end: nothing else runs
Running == run.pc = "loop"

(***************************************************************************)
(* The page.                                                               *)
(***************************************************************************)
\* the variants mounted together
Builds ==
    {[fetcher |-> "proxy", coint |-> "rolling", backtest |-> "cash"],
     [fetcher |-> "direct", coint |-> "full", backtest |-> "compound"],
     [fetcher |-> "proxy", coint |-> "full", backtest |-> "cash"],
     [fetcher |-> "proxy", coint |-> "rolling", backtest |-> "compound"]}

\* a response of k daily bars with the close prices c
Response(k, c) == [timestamp |-> [d \in 1..k |-> d * SecondsPerDay], close |-> c]

\* close prices over k days: 10 with 11 on day j; 10 and 11 from day j on;
\* 11 and 10 in turn
Spike(k, j) == [d \in 1..k |-> IF d = j THEN Whole(11) ELSE Whole(10)]

Step(k, j) == [d \in 1..k |-> IF d >= j THEN Whole(11) ELSE Whole(10)]

Alternating(k) == [d \in 1..k |-> IF d % 2 = 1 THEN Whole(11) ELSE Whole(10)]

ShapesA(k) == {Spike(k, k), Spike(k, k - 1), Step(k, k - 1)}

ShapesB(k) == {Alternating(k), Step(k, k \div 2 + 1), Step(k, k + 1)}

\* the price source: for each ticker a response of the same number of days,
\* MaxBars of them, one or none
Markets ==
    {[KO |-> Response(MaxBars, c1), PEP |-> Response(MaxBars, c2)] :
        c1 \in ShapesA(MaxBars), c2 \in ShapesB(MaxBars)}
    \cup {[KO |-> Response(k, Spike(k, k)), PEP |-> Response(k, Alternating(k))] :
             k \in {0, 1}}

\* the page, DataFetcher and BacktestEngine as mounted: the values of their
\* useState
MountedAround ==
    /\ fetcher = [ticker1 |-> "KO", ticker2 |-> "PEP", isLoading |-> FALSE,
                  stockData |-> null, pc |-> "idle"]
    /\ stockData = null
    /\ cointegrationResults = null
    /\ bt = IF build.backtest = "cash"
            THEN [isLoading |-> FALSE, backtestResults |-> null,
                  entryThreshold |-> Num(15, 10), exitThreshold |-> Num(2, 10),
                  positionSize |-> Whole(10000)]
            ELSE [isLoading |-> FALSE, backtestResults |-> null,
                  entryThreshold |-> "1.0", exitThreshold |-> "0.0",
                  positionSize |-> NULL]
    /\ run = IdleRun
    /\ toast = Toast("none", "")

\* the page and its components as mounted, CointegrationTest included
Mounted ==
    /\ MountedAround
    /\ coint = [isLoading |-> FALSE, results |-> null, pc |-> "idle",
                stockData |-> null]

Init ==
    /\ build \in Builds
    /\ market \in Markets
    /\ budget = MaxClicks
    /\ Mounted

Next ==
    \/ ~Running /\ fetchData
    \/ ~Running /\ \E o \in Outcomes :
                       \E seed \in DemoSeeds(build.fetcher, o) : fetchSettled(o, seed)
    \/ ~Running /\ runCointegrationTest
    \/ ~Running /\ \E seed \in Seeds : cointSettled(DrawOf(seed, 0), DrawOf(seed, 1))
    \/ ~Running /\ \E v \in EntryChoices(build.backtest) : setEntryThreshold(v)
    \/ ~Running /\ \E v \in ExitChoices(build.backtest) : setExitThreshold(v)
    \/ ~Running /\ runBacktest
    \/ ~Running /\ backtestResumed
    \/ backtestBar
    \/ \E seed \in Seeds : backtestFinished(DrawOf(seed, 0))

Spec == Init /\ [][Next]_vars

\* The scheduling of the page: the requests of a fetch end, the timers of the
\* analysis and of a backtest fire, and a loop that has started runs to its
\* end.  Each of fetchSettled, cointSettled, backtestBar and backtestFinished
\* is enabled in every state in which its run is suspended or looping and is
\* the only way out of it, so that its weak fairness is written on the states.
Scheduled ==
    /\ []<>(fetcher.pc # "await")
    /\ []<>(coint.pc # "await")
    /\ WF_vars(backtestResumed)
    /\ []<>(run.pc # "loop")

\* the markets of the scheduled runs: one of full length, and the short ones
LiveMarkets ==
    {m \in Markets :
        \/ Len(m.KO.timestamp) < MaxBars
        \/ m.KO.close = Spike(MaxBars, MaxBars) /\ m.PEP.close = Alternating(MaxBars)}

InitLive ==
    /\ build \in Builds
    /\ market \in LiveMarkets
    /\ budget = MaxClicks
    /\ Mounted

SpecLive == InitLive /\ [][Next]_vars /\ Scheduled

(***************************************************************************)
(* The data stage alone, on raw responses: timestamps in order, reversed   *)
(* or repeated, close prices that are null, zero or positive.              *)
(***************************************************************************)
\* longest raw response
RawLen == 2

RawPrices == {NULL, Fin(0), Whole(10)}

\* the days of a raw response of n entries: in order, in reverse order, or
\* with the first day repeated
RawDays(n) ==
    {[i \in 1..n |-> i], [i \in 1..n |-> n + 1 - i],
     [i \in 1..n |-> IF i = 1 THEN 1 ELSE i - 1]}

RawResponses ==
    UNION {{[timestamp |-> [i \in 1..n |-> ds[i] * SecondsPerDay], close |-> c] :
               ds \in RawDays(n), c \in [1..n -> RawPrices]} :
           n \in 0..RawLen}

RawMarkets == {[KO |-> r1, PEP |-> r2] : r1 \in RawResponses, r2 \in RawResponses}

InitAlign ==
    /\ build \in {b \in Builds : b.coint = "full"}
    /\ market \in RawMarkets
    /\ budget = 1
    /\ Mounted

NextAlign ==
    \/ fetchData
    \/ \E o \in Outcomes :
           \E seed \in DemoSeeds(build.fetcher, o) : fetchSettled(o, seed)

SpecAlign == InitAlign /\ [][NextAlign]_vars

(***************************************************************************)
(* The callback of data.map in runCointegrationTest alone, on one bar: its *)
(* local zscore is drawn, the step emits the z-score of the bar returned.  *)
(***************************************************************************)
\* largest |zscore| drawn, in steps of one half
MaxZ == 6

RawZ == {Num(k, 2) : k \in (0 - 2 * MaxZ)..(2 * MaxZ)} \cup {NaN}

\* the z-score of the bar the callback returns: the rolling analysis caps
\* it, the full-sample analysis stores (d.spread - spreadMean) / spreadStd
Emitted(variant, zscore) == IF variant = "rolling" THEN Capped(zscore) ELSE zscore

InitCap ==
    /\ build \in Builds
    /\ market \in {m \in Markets : Len(m.KO.timestamp) = 0}
    /\ budget = 0
    /\ MountedAround
    /\ \E z \in RawZ :
           coint = [isLoading |-> TRUE, results |-> null, pc |-> "map",
                    stockData |-> null, zscore |-> z]

\* the callback returns the bar
mapBar ==
    /\ coint.pc = "map"
    /\ coint' = [isLoading |-> TRUE, pc |-> "mapped", stockData |-> null,
                 zscore |-> coint.zscore,
                 results |-> [zscore |-> Emitted(build.coint, coint.zscore)]]
    /\ UNCHANGED <<build, market, budget, fetcher, stockData, cointegrationResults,
                   bt, run, toast>>

NextCap == mapBar

SpecCap == InitCap /\ [][NextCap]_vars

(***************************************************************************)
(* The cash variant of runBacktest alone, suspended at its timer with an   *)
(* analysis whose bars carry the z-scores a window of 30 days produces:    *)
(* between the thresholds, beyond them, and undefined.                     *)
(***************************************************************************)
\* bars of the analysis after the ones the loop skips
BookBars == 3

\* z-scores of the bars
BookZ == {Whole(0 - 2), Num(1, 10), Num(6, 10), Whole(2), NaN}

\* dataWithSpread with the z-scores zs after the leading bars, whose z-score
\* is 0
BookData(zs) ==
    [i \in 1..(SkipBars + BookBars) |->
        [date |-> i * SecondsPerDay, price1 |-> Whole(10), price2 |-> Whole(10),
         spread |-> Fin(0),
         zscore |-> IF i <= SkipBars THEN Fin(0) ELSE zs[i - SkipBars]]]

InitBooks ==
    /\ build = [fetcher |-> "proxy", coint |-> "rolling", backtest |-> "cash"]
    /\ market \in {m \in Markets : Len(m.KO.timestamp) = 0}
    /\ budget = 0
    /\ \E zs \in [1..BookBars -> BookZ] :
       \E e \in EntryChoices("cash") : \E x \in ExitChoices("cash") :
           LET data == BookData(zs)
               sd == [ticker1 |-> "KO", ticker2 |-> "PEP",
                      data |-> [i \in DOMAIN data |->
                                   [date |-> data[i].date, price1 |-> data[i].price1,
                                    price2 |-> data[i].price2]]]
               cr == [RollingResults(sd, DrawOf(1, 0), DrawOf(1, 1))
                          EXCEPT !.dataWithSpread = data]
           IN  /\ fetcher = [ticker1 |-> "KO", ticker2 |-> "PEP",
                             isLoading |-> FALSE, stockData |-> [data |-> sd.data],
                             pc |-> "idle"]
               /\ stockData = sd
               /\ cointegrationResults = cr
               /\ coint = [isLoading |-> FALSE, results |-> cr, pc |-> "idle",
                           stockData |-> null]
               /\ bt = [isLoading |-> TRUE, backtestResults |-> null,
                        entryThreshold |-> e, exitThreshold |-> x,
                        positionSize |-> Whole(10000)]
               /\ run = [pc |-> "await", cointegrationResults |-> cr,
                         entryThreshold |-> e, exitThreshold |-> x,
                         positionSize |-> Whole(10000)]
               /\ toast = CointToast("rolling", cr)

NextBooks ==
    \/ backtestResumed
    \/ backtestBar
    \/ \E seed \in Seeds : backtestFinished(DrawOf(seed, 0))

SpecBooks == InitBooks /\ [][NextBooks]_vars

(***************************************************************************)
(* BacktestEngine under the tabs of the page.  The content of a tab is     *)
(* mounted while the tab is selected: leaving the tab and coming back      *)
(* mounts BacktestEngine anew, with the values of its useState, while a    *)
(* run of the instance that was unmounted stays suspended at its timer and *)
(* goes on when the timer fires.  run holds the run of each instance, and  *)
(* overlapped records that both have been suspended at once.               *)
(***************************************************************************)
Instances == {"mounted", "unmounted"}

Other(s) == IF s = "mounted" THEN "unmounted" ELSE "mounted"

\* the values of useState of BacktestEngine
EngineMounted(variant) ==
    IF variant = "cash"
    THEN [isLoading |-> FALSE, backtestResults |-> null,
          entryThreshold |-> Num(15, 10), exitThreshold |-> Num(2, 10),
          positionSize |-> Whole(10000)]
    ELSE [isLoading |-> FALSE, backtestResults |-> null,
          entryThreshold |-> "1.0", exitThreshold |-> "0.0",
          positionSize |-> NULL]

\* the loop of a run of some instance is in progress: nothing else runs
TabsRunning == \E s \in Instances : run[s].pc = "loop"

InitTabs ==
    /\ build \in {b \in Builds : (b.coint = "rolling") = (b.backtest = "cash")}
    /\ market \in {m \in Markets : Len(m.KO.timestamp) = MaxBars}
    /\ budget = MaxClicks
    /\ LET sd == [ticker1 |-> "KO", ticker2 |-> "PEP",
                  data |-> Merged(market["KO"], market["PEP"])]
           cr == TestResults(build.coint, sd, DrawOf(1, 0), DrawOf(1, 1))
       IN  /\ fetcher = [ticker1 |-> "KO", ticker2 |-> "PEP", isLoading |-> FALSE,
                         stockData |-> [data |-> sd.data], pc |-> "idle"]
           /\ stockData = sd
           /\ cointegrationResults = cr
           /\ coint = [isLoading |-> FALSE, results |-> cr, pc |-> "idle",
                       stockData |-> null]
           /\ toast = CointToast(build.coint, cr)
    /\ \E e \in EntryChoices(build.backtest) :
           bt = [EngineMounted(build.backtest) EXCEPT !.entryThreshold = e]
    /\ run = [pc |-> "tabs", mounted |-> IdleRun, unmounted |-> IdleRun,
              overlapped |-> FALSE]

\* the click on "Run Backtest" of the mounted instance
tabsRunBacktest ==
    /\ budget > 0
    /\ ~TabsRunning
    /\ run.mounted.pc \in {"idle", "done"}
    /\ BacktestButtonEnabled
    /\ ~BacktestRejects(build.backtest, stockData, cointegrationResults)
    /\ budget' = budget - 1
    /\ bt' = [bt EXCEPT !.isLoading = TRUE]
    /\ run' = [run EXCEPT
                 !.mounted = [pc |-> "await",
                              captured |-> [pc |-> "await",
                                            cointegrationResults |-> cointegrationResults,
                                            entryThreshold |-> bt.entryThreshold,
                                            exitThreshold |-> bt.exitThreshold,
                                            positionSize |-> bt.positionSize]],
                 !.overlapped = @ \/ run.unmounted.pc = "await"]
    /\ UNCHANGED <<build, market, fetcher, stockData, cointegrationResults, coint,
                   toast>>

\* another tab is selected and then "Backtesting" again, while the run of
\* the instance is suspended: the instance is unmounted with its run, and a
\* new one is mounted
tabsRemounted ==
    /\ budget > 0
    /\ ~TabsRunning
    /\ run.mounted.pc = "await"
    /\ run.unmounted.pc = "idle"
    /\ budget' = budget - 1
    /\ bt' = EngineMounted(build.backtest)
    /\ run' = [run EXCEPT !.unmounted = run.mounted, !.mounted = IdleRun]
    /\ UNCHANGED <<build, market, fetcher, stockData, cointegrationResults, coint,
                   toast>>

\* onValueChange / onChange of the entry threshold of the mounted instance
tabsSetEntryThreshold(v) ==
    /\ budget > 0
    /\ ~TabsRunning
    /\ v # bt.entryThreshold
    /\ bt' = [bt EXCEPT !.entryThreshold = v]
    /\ budget' = budget - 1
    /\ UNCHANGED <<build, market, fetcher, stockData, cointegrationResults, coint,
                   run, toast>>

\* the timer of the run of instance s fires, with module-level variables in
\* place of the locals of runBacktest: position, cash, trades and equityCurve
\* are what the run that ended before left
tabsResumedSharing(s) ==
    /\ ~TabsRunning
    /\ run[s].pc = "await"
    /\ s = "mounted" => run.unmounted.pc # "await"
    /\ LET fresh == Locals(build.backtest, run[s].captured)
           left == run[Other(s)]
       IN  run' = [run EXCEPT
                     ![s] = [pc |-> "loop", captured |-> run[s].captured,
                             st |-> IF left.pc = "done"
                                    THEN [fresh EXCEPT !.position = left.st.position,
                                                       !.cash = left.st.cash,
                                                       !.trades = left.st.trades,
                                                       !.equity = left.st.equity]
                                    ELSE fresh]]
    /\ UNCHANGED <<build, market, budget, fetcher, stockData, cointegrationResults,
                   coint, bt, toast>>

\* the timer of the run of instance s fires and its loop starts; the timers
\* have the same delay and fire in the order they were set
tabsResumed(s) ==
    /\ ~TabsRunning
    /\ run[s].pc = "await"
    /\ s = "mounted" => run.unmounted.pc # "await"
    /\ run' = [run EXCEPT
                 ![s] = [pc |-> "loop", captured |-> run[s].captured,
                         st |-> Locals(build.backtest, run[s].captured)]]
    /\ UNCHANGED <<build, market, budget, fetcher, stockData, cointegrationResults,
                   coint, bt, toast>>

\* the locals of a run after the bar of index st.i
BarOf(variant, st) ==
    LET after == IF variant = "cash"
                 THEN CashBar(st, st.data[st.i + 1], st.i)
                 ELSE CompoundBar(st, st.data[st.i + 1], st.data[st.i])
    IN  [after EXCEPT !.i = st.i + 1]

\* one bar of the loop of the run of instance s
tabsBar(s) ==
    /\ run[s].pc = "loop"
    /\ run[s].st.i < Len(run[s].st.data)
    /\ run' = [run EXCEPT ![s].st = BarOf(build.backtest, @)]
    /\ UNCHANGED <<build, market, budget, fetcher, stockData, cointegrationResults,
                   coint, bt, toast>>

\* after the last bar of the run of instance s: setIsLoading and
\* setBacktestResults act on the state of the instance, which is gone when
\* the instance is unmounted
tabsFinished(s, r) ==
    /\ run[s].pc = "loop"
    /\ run[s].st.i >= Len(run[s].st.data)
    /\ LET results == Results(build.backtest, run[s].st, r)
       IN  /\ run' = [run EXCEPT ![s] = [pc |-> "done", captured |-> run[s].captured,
                                         st |-> run[s].st, draw |-> r,
                                         results |-> results]]
           /\ bt' = IF s = "mounted"
                    THEN [bt EXCEPT !.isLoading = FALSE, !.backtestResults = results]
                    ELSE bt
    /\ toast' = Toast("success", "Backtest complete")
    /\ UNCHANGED <<build, market, budget, fetcher, stockData, cointegrationResults,
                   coint>>

NextTabs ==
    \/ tabsRunBacktest
    \/ tabsRemounted
    \/ \E v \in EntryChoices(build.backtest) : tabsSetEntryThreshold(v)
    \/ \E s \in Instances : tabsResumed(s)
    \/ \E s \in Instances : tabsBar(s)
    \/ \E s \in Instances : \E seed \in Seeds : tabsFinished(s, DrawOf(seed, 0))

SpecTabs == InitTabs /\ [][NextTabs]_vars


(***************************************************************************)
(* Properties of the backtest: positions and the trade log.                *)
(***************************************************************************)
EntryActions ==
    {"LONG ticker1, SHORT ticker2", "SHORT ticker1, LONG ticker2",
     "ENTER_LONG", "ENTER_SHORT"}

CloseActions == {"CLOSE POSITION", "EXIT_LONG", "EXIT_SHORT"}

\* indices of the records of the log that open, and that close, a position
Entries(trades) == {k \in DOMAIN trades : trades[k].action \in EntryActions}

Closes(trades) == {k \in DOMAIN trades : trades[k].action \in CloseActions}

\* the z-score of the bar satisfies an entry condition of the run
EntrySignal(st, day) ==
    Lt(day.zscore, Neg(st.entryZ)) \/ Gt(day.zscore, st.entryZ)

\* the bar the loop has just processed
LastBar == run.data[run.i]

\* the bar the loop has just processed was looked at by the trading logic
LastBarTraded ==
    /\ run.pc = "loop"
    /\ run.i >= 1
    /\ build.backtest = "cash" => run.i > SkipBars

\* the log holds no record of the date of the bar just processed
LastBarSilent == \A k \in DOMAIN run.trades : run.trades[k].date # LastBar.date

\* C1 (state): during a run the position is -1, 0 or 1 and the entries
\* recorded exceed the closes recorded by exactly the positions open, that
\* is by at most one.
C1_OneOpen ==
    run.pc = "loop" =>
        /\ run.position \in {0 - 1, 0, 1}
        /\ Cardinality(Entries(run.trades)) - Cardinality(Closes(run.trades))
               = AbsInt(run.position)
        /\ build.backtest = "cash" =>
               run.tradeCount = Cardinality(Entries(run.trades))

\* C1 (step): a bar processed while a position is open records no entry and
\* leaves the position as it is or closes it.
C1_EntryIgnored ==
    (run.pc = "loop" /\ run'.pc = "loop" /\ run.position # 0) =>
        /\ Entries(run'.trades) = Entries(run.trades)
        /\ run'.position \in {run.position, 0}

\* C1: in both variants at most one position is open after any sequence of
\* bars, and a bar with an entry signal met while a position is open opens
\* nothing and records no entry.
C1_AtMostOnePosition == []C1_OneOpen /\ [][C1_EntryIgnored]_vars

\* an entry signal was met with a position open, and nothing was recorded
C1_Witness ==
    /\ LastBarTraded
    /\ run.position # 0
    /\ EntrySignal(run, LastBar)
    /\ LastBarSilent
    /\ Entries(run.trades) # {}

\* indices of the records that open or close a position
Marks(trades) == Entries(trades) \cup Closes(trades)

\* the last of the marks before the record of index k
MarkBefore(trades, k) ==
    CHOOSE m \in Marks(trades) : m < k /\ \A j \in Marks(trades) : j < k => j <= m

\* C2: in the log of a run every close follows an entry of a strictly earlier
\* bar, and every entry that follows a close is of a strictly later bar than
\* that close: no position is opened and closed, or closed and re-opened, on
\* one bar.
C2_ExitAfterEntry ==
    run.pc = "loop" =>
        \A k \in Marks(run.trades) :
            LET first == \A j \in Marks(run.trades) : j >= k
                m == MarkBefore(run.trades, k)
            IN  IF k \in Closes(run.trades)
                THEN /\ ~first
                     /\ m \in Entries(run.trades)
                     /\ run.trades[m].date < run.trades[k].date
                ELSE first \/ /\ m \in Closes(run.trades)
                              /\ run.trades[m].date < run.trades[k].date

\* a position was opened, closed on a later bar and another opened after it
C2_Witness ==
    /\ run.pc = "loop"
    /\ Closes(run.trades) # {}
    /\ \E k \in Entries(run.trades) : \E j \in Closes(run.trades) : j < k

(***************************************************************************)
(* Properties of the backtest: thresholds, the end of a run, publication.  *)
(***************************************************************************)
\* 0 <= exitThreshold < entryThreshold
ValidThresholds(entry, exit) == Le(Fin(0), exit) /\ Lt(exit, entry)

\* the loop of the run has processed its last bar
LoopDone == run.pc = "loop" /\ run.i >= Len(run.data)

\* C3: a run whose thresholds violate 0 <= exit < entry simulates no bar, and
\* no result is published with such thresholds.
C3_InvalidThresholdsRejected ==
    /\ run.pc = "loop" => ValidThresholds(run.entryZ, run.exitZ)
    /\ bt.backtestResults # null =>
           IF build.backtest = "cash"
           THEN ValidThresholds(bt.backtestResults.parameters.entryZ,
                                bt.backtestResults.parameters.exitZ)
           ELSE ValidThresholds(bt.backtestResults.parameters.entryThreshold,
                                bt.backtestResults.parameters.exitThreshold)

\* C6: when the loop of a run has processed its last bar no position is
\* open, and every close of the log says whether it was forced.
C6_FlatAtEnd ==
    LoopDone =>
        /\ run.position = 0
        /\ \A k \in Closes(run.trades) : "forcedClose" \in DOMAIN run.trades[k]

\* the fields of a published result
ResultFields(variant) ==
    IF variant = "cash"
    THEN {"totalReturn", "sharpeRatio", "maxDrawdown", "winRate", "totalTrades",
          "winningTrades", "finalValue", "equityCurve", "trades", "parameters"}
    ELSE {"totalReturn", "sharpeRatio", "maxDrawdown", "numTrades", "winRate",
          "equity", "trades", "parameters"}

\* equity points of a run over n bars
EquityPoints(variant, n) ==
    IF variant = "cash" THEN (IF n > SkipBars THEN n - SkipBars ELSE 0)
    ELSE IF n - 1 > EquityKept THEN EquityKept
    ELSE IF n > 1 THEN n - 1 ELSE 0

\* res has every field of a result and the equity curve of a run over n bars
Complete(variant, res, n) ==
    /\ DOMAIN res = ResultFields(variant)
    /\ Len(IF variant = "cash" THEN res.equityCurve ELSE res.equity)
           = EquityPoints(variant, n)

\* C7 (publication): backtestResults changes only in the step that ends a
\* run whose loop has processed its last bar, to a complete result.
C7_PublishedAtEnd ==
    bt'.backtestResults # bt.backtestResults =>
        /\ LoopDone
        /\ run'.pc = "idle"
        /\ Complete(build.backtest, bt'.backtestResults, Len(run.data))
        /\ toast'.kind = "success"

\* C7 (end of a run): a run ends by publishing a complete result, or by
\* reporting an error and leaving backtestResults as it was.
C7_EndOfRun ==
    (run.pc # "idle" /\ run'.pc = "idle") =>
        \/ /\ LoopDone
           /\ Complete(build.backtest, bt'.backtestResults, Len(run.data))
           /\ toast'.kind = "success"
        \/ /\ bt'.backtestResults = bt.backtestResults
           /\ toast'.kind = "error"

\* C7: a run publishes its result once, after its last bar and with every
\* statistic; a failing run publishes nothing, leaves the published result
\* unchanged and reports an error.
C7_PublishedOnce == [][C7_PublishedAtEnd /\ C7_EndOfRun]_vars

\* a run over bars that produced equity points has published its result
C7_Witness ==
    /\ run.pc = "idle"
    /\ bt.backtestResults # null
    /\ toast = Toast("success", "Backtest complete")
    /\ EquityPoints(build.backtest, Len(stockData.data)) > 0
    /\ Len(IF build.backtest = "cash" THEN bt.backtestResults.equityCurve
           ELSE bt.backtestResults.equity) > 0

(***************************************************************************)
(* Properties of the data and analysis stages.                             *)
(***************************************************************************)
\* the bars a published analysis was computed from, with what it derived
Series(cr) == IF "dataWithSpread" \in DOMAIN cr THEN cr.dataWithSpread ELSE cr.fullData

\* C4 (analysis): an analysis published in place of one computed from the
\* same tickers and the same bars is identical to it in every field.
C4_SameAnalysis ==
    (/\ cointegrationResults # null
     /\ cointegrationResults' # null
     /\ cointegrationResults'.ticker1 = cointegrationResults.ticker1
     /\ cointegrationResults'.ticker2 = cointegrationResults.ticker2
     /\ Series(cointegrationResults') = Series(cointegrationResults))
        => cointegrationResults' = cointegrationResults

\* C4 (backtest): the result a run publishes is the same for every draw of
\* the random source.
C4_SameBacktest ==
    bt'.backtestResults # bt.backtestResults =>
        \A seed \in Seeds :
            bt'.backtestResults = Results(build.backtest, run, DrawOf(seed, 0))

\* C4: the pipeline run again on the same price data and configuration
\* publishes the same results in every field; no field depends on a random
\* draw.
C4_Idempotent == [][C4_SameAnalysis /\ C4_SameBacktest]_vars

\* C5: in a published rolling analysis the bars whose window is not filled,
\* the first window - 1, and only they, carry a z-score that is not a number,
\* and the backtest evaluates no entry or exit on one of them.
C5_LeadingSentinel ==
    /\ (cointegrationResults # null /\ "dataWithSpread" \in DOMAIN cointegrationResults)
           => \A i \in DOMAIN cointegrationResults.dataWithSpread :
                  (i <= window - 1)
                      <=> ~IsFin(cointegrationResults.dataWithSpread[i].zscore)
    /\ (LastBarTraded /\ build.coint = "rolling") => run.i > window - 1

\* the bars the price source holds for the tickers of the fetcher
Retrieved == Merged(market[fetcher.ticker1], market[fetcher.ticker2])

\* C8 (state): the bars stored and handed on are the bars retrieved, and
\* there is at least one.
C8_OnlyRetrieved ==
    /\ stockData # null => stockData.data = Retrieved /\ Len(Retrieved) > 0
    /\ fetcher.stockData # null => fetcher.stockData.data = Retrieved

\* C8 (step): a fetch that ends with an error stores and hands on nothing.
C8_ErrorStoresNothing ==
    (fetcher.pc = "await" /\ fetcher'.pc = "idle" /\ toast'.kind = "error") =>
        /\ stockData' = stockData
        /\ fetcher'.stockData = fetcher.stockData

\* C8: a failed retrieval fails closed: nothing is stored or handed on, and
\* no substitute data takes the place of the retrieved bars.
C8_FailClosed == []C8_OnlyRetrieved /\ [][C8_ErrorStoresNothing]_vars

\* C9: no series below the minimum length is stored or handed to the
\* analysis, and no analysis is computed from one.
C9_MinimumLength ==
    /\ stockData # null => Len(stockData.data) >= MinDataPoints
    /\ fetcher.stockData # null => Len(fetcher.stockData.data) >= MinDataPoints
    /\ coint.stockData # null => Len(coint.stockData.data) >= MinDataPoints
    /\ cointegrationResults # null =>
           Len(Series(cointegrationResults)) >= MinDataPoints

\* C10: no analysis is published from bars on which the denominator of the
\* regression, n * sumXX - sumX * sumX, is zero.
C10_DegenerateRejected ==
    [][cointegrationResults' # cointegrationResults =>
           Denominator(coint.stockData.data) # Fin(0)]_vars

(***************************************************************************)
(* Properties of the alignment.                                            *)
(***************************************************************************)
\* p is a price: a number above zero
IsPrice(p) == p[1] = "fin" /\ p[2] > 0

\* the dates a response holds with a price
PricedDates(resp) ==
    {DateOf(resp.timestamp[i]) :
        i \in {j \in 1..Len(resp.timestamp) :
                  j <= Len(resp.close) /\ IsPrice(resp.close[j])}}

\* the bars were retrieved and stored by the fetch that has just ended
StoredRetrieved ==
    stockData # null /\ toast = Toast("success", "Successfully fetched")

\* C11: the aligned series holds exactly the dates both responses hold with a
\* non-null price above zero, each once and in increasing order, with prices
\* above zero for both instruments.
C11_OrderedIntersection ==
    StoredRetrieved =>
        LET a == stockData.data
        IN  /\ \A i \in 1..(Len(a) - 1) : a[i].date < a[i + 1].date
            /\ {a[i].date : i \in 1..Len(a)}
                   = PricedDates(market[fetcher.ticker1])
                         \cap PricedDates(market[fetcher.ticker2])
            /\ \A i \in 1..Len(a) : IsPrice(a[i].price1) /\ IsPrice(a[i].price2)


(***************************************************************************)
(* The metrics of a published result.                                      *)
(***************************************************************************)
\* the step that ends a run after its last bar and publishes its result
Publishes == LoopDone /\ run'.pc = "idle"

\* the portfolio values of a run: the starting capital, then its equity points
Values(equity) == <<Whole(StartingCash)>> \o [k \in DOMAIN equity |-> equity[k].value]

\* the percentage declines of the portfolio value below an earlier value
Declines(vs) ==
    {Mul(Div(Sub(vs[p[1]], vs[p[2]]), vs[p[1]]), Whole(100)) :
        p \in {q \in (DOMAIN vs) \X (DOMAIN vs) : q[1] <= q[2]}}

\* the largest percentage decline of the value below its running maximum
PeakDecline(equity) ==
    LET ds == Declines(Values(equity))
    IN  IF \E d \in ds : ~IsFin(d) THEN NaN
        ELSE CHOOSE d \in ds : \A e \in ds : Le(e, d)

\* C12: the maximum drawdown a run publishes is at least 0 and at most 100
\* percent, and is the largest percentage decline of the portfolio value of
\* its equity curve below its running maximum.
C12_DrawdownFromPeak ==
    [][Publishes =>
          LET md == bt'.backtestResults.maxDrawdown
          IN  /\ IsFin(md)
              /\ Le(Fin(0), md) /\ Le(md, Whole(100))
              /\ md = RoundTo(PeakDecline(run.equity), 100)]_vars


\* C13: the Sharpe ratio a run publishes is a finite number, and it is 0 when
\* the daily returns of the run have standard deviation 0 or there are none.
C13_SharpeFinite ==
    [][Publishes =>
          LET sharpe == bt'.backtestResults.sharpeRatio
              returns == IF build.backtest = "cash"
                         THEN [k \in 1..(Len(run.equity) - 1) |->
                                  Sub(Div(run.equity[k + 1].value, run.equity[k].value),
                                      Whole(1))]
                         ELSE run.returns
              avg == MeanOver(returns, Len(returns))
          IN  /\ IsFin(sharpe)
              /\ (Len(returns) = 0 \/ StdOver(returns, avg, Len(returns)) = Fin(0))
                     => sharpe = Fin(0)]_vars


\* the P&L records of the closes of the cash variant
PnlRecords(trades) == {k \in DOMAIN trades : "pnl" \in DOMAIN trades[k]}

\* the closed trades of a run: the cash variant records a P&L for each, the
\* compounding variant only the exit
ClosedTrades(st) ==
    IF build.backtest = "cash" THEN PnlRecords(st.trades) ELSE Closes(st.trades)

\* C14: the win rate a run publishes is 0 when the run closed no trade, and
\* otherwise the share of its closed trades that have a positive P&L, a trade
\* still open at the end not counted.
C14_WinRateOfClosed ==
    [][Publishes =>
          LET winRate == bt'.backtestResults.winRate
              closed == ClosedTrades(run)
          IN  /\ closed = {} => winRate = Fin(0)
              /\ (closed # {} /\ build.backtest = "cash") =>
                     winRate = Div(Whole(Cardinality({k \in closed :
                                                         Gt(run.trades[k].pnl, Fin(0))})),
                                   Whole(Cardinality(closed)))]_vars


\* C15: the result a run publishes holds every trade record and every equity
\* point the run has produced.
C15_FullListAndCurve ==
    [][Publishes =>
          /\ bt'.backtestResults.trades = run.trades
          /\ (IF build.backtest = "cash" THEN bt'.backtestResults.equityCurve
              ELSE bt'.backtestResults.equity) = run.equity]_vars


(***************************************************************************)
(* The position over the bars of a run.                                    *)
(***************************************************************************)
\* the step processes a bar of the loop, and the trading logic looks at it
BarStep == run.pc = "loop" /\ run'.pc = "loop"

Evaluated == build.backtest = "cash" => run.i >= SkipBars

\* the bar the step processes
NextBar == run.data[run.i + 1]

\* the z-score z of a bar is below minus the finite threshold t, or above
\* it: on the values, with -Infinity below and Infinity above every threshold
\* and NaN neither
Below(z, t) == IsFin(t) /\ (z = Inf(0 - 1) \/ (IsFin(z) /\ z[2] < 0 - t[2]))

Above(z, t) == IsFin(t) /\ (z = Inf(1) \/ (IsFin(z) /\ z[2] > t[2]))

\* C16 (entry): a bar evaluated while flat enters long exactly when its
\* z-score is below minus the entry threshold, short exactly when it is above
\* the entry threshold, and otherwise leaves the position flat.
C16_EntryRule ==
    (BarStep /\ Evaluated /\ run.position = 0) =>
        run'.position = IF Below(NextBar.zscore, run.entryZ) THEN 1
                        ELSE IF Above(NextBar.zscore, run.entryZ) THEN 0 - 1
                        ELSE 0

\* C16 (reversal): no bar takes the position from long to short or from short
\* to long.
C16_NoReversal ==
    BarStep => ~(run.position # 0 /\ run'.position = 0 - run.position)

\* C16: on a bar evaluated while flat the run enters long exactly when
\* zscore < -entryThreshold, short exactly when zscore > entryThreshold, and
\* stays flat otherwise; the position never passes from long to short or back
\* without being flat in between.
C16_EntryFromFlat == [][C16_EntryRule /\ C16_NoReversal]_vars

\* the last record of the log
LastTrade == run.trades[Len(run.trades)]

\* the bar just evaluated was met flat and opened a short position, after an
\* earlier bar was evaluated and left the run flat
C16_Witness ==
    /\ LastBarTraded
    /\ run.position = 0 - 1
    /\ Len(run.trades) = 1
    /\ LastTrade.date = LastBar.date
    /\ LastTrade.action \in EntryActions
    /\ Above(LastBar.zscore, run.entryZ)
    /\ Len(run.equity) >= 2


\* the absolute z-score z of a bar is strictly below the threshold t, on the
\* values
Within(z, t) == IsFin(z) /\ IsFin(t) /\ AbsInt(z[2]) < t[2]

\* C17: a bar before the last one that is evaluated while a position is open
\* closes it exactly when |zscore| < exitThreshold, strictly: a bar with
\* |zscore| at the exit threshold or above it leaves the position open.
C17_StrictExit ==
    [][(BarStep /\ Evaluated /\ run.position # 0 /\ run.i + 1 < Len(run.data)) =>
          run'.position = IF Within(NextBar.zscore, run.exitZ) THEN 0
                          ELSE run.position]_vars


\* C18: every bar of the series appends one equity point, in the order of the
\* bars: when the loop of a run ends its equity curve has one point for each
\* bar of the series, the k-th of the date of the k-th bar.
C18_PointPerBar ==
    LoopDone =>
        /\ Len(run.equity) = Len(run.data)
        /\ \A k \in DOMAIN run.equity : run.equity[k].date = run.data[k].date


\* C19: a bar appends one record to the log when it opens a position, one
\* when it closes one, and none otherwise: no entry and no exit produces two
\* records.
C19_RecordPerEvent ==
    [][BarStep =>
          Len(run'.trades) = Len(run.trades)
                                 + (IF run'.position # run.position THEN 1 ELSE 0)]_vars


\* the portfolio value last recorded by a run: of its last equity point, or
\* the starting capital before the first
LastValue(st) ==
    IF Len(st.equity) = 0 THEN Whole(StartingCash)
    ELSE st.equity[Len(st.equity)].value

\* C20: a bar that starts and ends with the position flat records, in its
\* equity point, the portfolio value recorded for the previous bar.
C20_FlatKeepsValue ==
    [][(BarStep /\ run.position = 0 /\ run'.position = 0
            /\ Len(run'.equity) > Len(run.equity)) =>
          /\ Len(run'.equity) = Len(run.equity) + 1
          /\ LastValue(run') = LastValue(run)]_vars

\* the bar just processed started and ended flat and recorded a point, after
\* a position was held and closed earlier in the run
C20_Witness ==
    /\ run.pc = "loop"
    /\ Len(run.equity) >= 2
    /\ run.position = 0
    /\ run.equity[Len(run.equity)].date = LastBar.date
    /\ run.equity[Len(run.equity) - 1].position = 0
    /\ LastBarSilent
    /\ Entries(run.trades) # {}


(***************************************************************************)
(* The portfolio value over the bars of a run.                             *)
(***************************************************************************)
\* the hedge ratio of the analysis a run works on
HedgeOf(st) ==
    IF "hedgeRatio" \in DOMAIN st THEN st.hedgeRatio ELSE cointegrationResults.hedgeRatio

\* sign(position) * (returnA - hedgeRatio * returnB) of the bar of index i
\* (from 0) of the run, for the position pos
DayReturn(st, i, pos) ==
    LET current == st.data[i + 1]
        prev == st.data[i]
        returnA == Div(Sub(current.price1, prev.price1), prev.price1)
        returnB == Div(Sub(current.price2, prev.price2), prev.price2)
    IN  Mul(Whole(pos), Sub(returnA, Mul(HedgeOf(st), returnB)))

\* the portfolio value v after a bar of return r with everything allocated
Compounded(v, r) == Mul(v, Add(Whole(1), r))

\* C21: on a bar through which a position is held the portfolio value is
\* multiplied by 1 + dayReturn (allocation fraction 1.0), and on a bar that
\* opens a position it stays as it was or is multiplied so: it never jumps by
\* a position size.
C21_ValueCompounds ==
    [][(BarStep /\ Evaluated /\ run.i >= 1 /\ run'.position # 0) =>
          LET grown == Compounded(run.totalValue,
                                  DayReturn(run, run.i, run'.position))
          IN  IF run.position # 0 THEN run'.totalValue = grown
              ELSE run'.totalValue \in {run.totalValue, grown}]_vars


(***************************************************************************)
(* The z-scores of a published analysis.                                   *)
(***************************************************************************)
\* the bars whose spreads the z-score of bar i (from 1) is standardised
\* with: the trailing window of the rolling analysis, every bar of the
\* full-sample analysis
WindowOf(cr, i) ==
    IF "dataWithSpread" \in DOMAIN cr
    THEN (IF i >= window THEN (i - window + 1)..i ELSE {})
    ELSE DOMAIN Series(cr)

\* the spreads of the window of bar i are finite and all equal: their
\* standard deviation is zero
FlatWindow(cr, i) ==
    /\ WindowOf(cr, i) # {}
    /\ \A j \in WindowOf(cr, i) :
           /\ IsFin(Series(cr)[j].spread)
           /\ Series(cr)[j].spread = Series(cr)[i].spread

\* C22: in a published analysis every bar whose window of spreads has zero
\* standard deviation has the z-score 0, not NaN and not an infinity.
C22_FlatWindowZero ==
    cointegrationResults # null =>
        \A i \in DOMAIN Series(cointegrationResults) :
            FlatWindow(cointegrationResults, i) =>
                Series(cointegrationResults)[i].zscore = Fin(0)


\* the clipping configured: CointegrationTest takes the props stockData and
\* onResultsGenerated and holds the state isLoading and results, and none of
\* them is a clipping bound
clipAbs == NULL

\* the z-score emitted for z under the clipping bound c, or under none
Clipped(z, c) ==
    IF c = NULL THEN z
    ELSE IF IsInf(z) \/ (IsFin(z) /\ AbsInt(z[2]) > c[2]) THEN Fin(0)
    ELSE z

\* C23: the z-score a bar is emitted with is the one computed, set to 0 when
\* a clipping bound is configured and |zscore| exceeds it, and unaltered when
\* none is configured.
C23_ClipAsConfigured ==
    coint.pc = "mapped" => coint.results.zscore = Clipped(coint.zscore, clipAbs)


(***************************************************************************)
(* The stages of the page and what they hand to one another.               *)
(***************************************************************************)
\* the step belongs to the analysis, to a backtest run
CointStep == coint' # coint

BacktestStep == run' # run \/ bt'.backtestResults # bt.backtestResults

\* the date and the prices of the bars of a series
Prices(data) ==
    [k \in DOMAIN data |-> [date |-> data[k].date, price1 |-> data[k].price1,
                            price2 |-> data[k].price2]]

\* C24 (analysis): a step of the analysis leaves the price series of the page
\* as it is, and the bars it publishes carry the dates and prices of the
\* series it was given.
C24_AnalysisKeepsPrices ==
    CointStep =>
        /\ stockData' = stockData
        /\ (coint.pc = "await" /\ coint'.pc = "idle") =>
               Prices(Series(cointegrationResults')) = Prices(coint.stockData.data)

\* C24 (backtest): a step of a backtest run leaves the analysis and the price
\* series of the page as they are, and the bars the run works on as they
\* were when its loop started.
C24_BacktestKeepsAnalysis ==
    BacktestStep =>
        /\ stockData' = stockData
        /\ cointegrationResults' = cointegrationResults
        /\ BarStep => run'.data = run.data

\* C24: no stage changes what an earlier stage has produced: the analysis
\* leaves the price series unchanged, a backtest leaves the analysis and the
\* price series unchanged.
C24_StagesKeepInputs == [][C24_AnalysisKeepsPrices /\ C24_BacktestKeepsAnalysis]_vars

\* an analysis and a backtest have run to their end on the series of the page
C24_Witness ==
    /\ stockData # null
    /\ cointegrationResults # null
    /\ bt.backtestResults # null
    /\ Len(stockData.data) = MaxBars
    /\ Prices(Series(cointegrationResults)) = Prices(stockData.data)


\* C26: the analysis the backtest stage is given was computed from the price
\* data the page holds: it names the tickers of stockData and its bars carry
\* the dates and prices of the bars of stockData.
C26_ResultsOfCurrentData ==
    (stockData # null /\ cointegrationResults # null) =>
        /\ cointegrationResults.ticker1 = stockData.ticker1
        /\ cointegrationResults.ticker2 = stockData.ticker2
        /\ Prices(Series(cointegrationResults)) = Prices(stockData.data)


\* the errors the guards of the analysis and of the backtest report
CointGateErrors ==
    {Toast("error", "Need at least 50 data points for cointegration test"),
     Toast("error", "Please fetch stock data first")}

BacktestGateErrors ==
    {Toast("error", "Please run cointegration test first"),
     Toast("error", "Please complete cointegration analysis first")}

\* the analysis, the backtest, is not to run on what the page holds
CointGated == CointRejects(build.coint, stockData)

BacktestGated == BacktestRejects(build.backtest, stockData, cointegrationResults)

\* a click that changed nothing of the components
NothingDone ==
    /\ budget' < budget
    /\ fetcher' = fetcher /\ stockData' = stockData
    /\ coint' = coint /\ cointegrationResults' = cointegrationResults
    /\ bt' = bt /\ run' = run

\* C27 (analysis): while the analysis is gated and not running, no step sets
\* its loading flag, starts it or publishes a result, and its error is
\* reported only by a click that did nothing else.
C27_AnalysisGated ==
    /\ (CointGated /\ coint.pc = "idle") =>
           /\ coint' = coint
           /\ cointegrationResults' = cointegrationResults
    /\ (toast' # toast /\ toast' \in CointGateErrors) => (CointGated /\ NothingDone)

\* C27 (backtest): while the backtest is gated and not running, no step sets
\* its loading flag, starts a run or publishes a result, and its error is
\* reported only by a click that did nothing else.
C27_BacktestGated ==
    /\ (BacktestGated /\ run.pc = "idle") =>
           /\ run' = run
           /\ bt'.isLoading = bt.isLoading
           /\ bt'.backtestResults = bt.backtestResults
    /\ (toast' # toast /\ toast' \in BacktestGateErrors) =>
           (BacktestGated /\ NothingDone)

\* C27: an analysis invoked without enough price data and a backtest invoked
\* without the analysis it needs report an error and return: nothing is
\* computed, no loading flag is set, no result is published or handed on.
C27_GatedInOrder == [][C27_AnalysisGated /\ C27_BacktestGated]_vars

\* the analysis was invoked on a series that is too short and has reported it
C27_Witness ==
    /\ toast \in CointGateErrors
    /\ CointGated
    /\ stockData # null
    /\ coint.pc = "idle" /\ ~coint.isLoading
    /\ cointegrationResults = null


(***************************************************************************)
(* The loading flags.                                                      *)
(***************************************************************************)
\* C28 (rest): a component none of whose runs is in progress has its loading
\* flag false.
C28_FlagsDownAtRest ==
    /\ fetcher.pc = "idle" => ~fetcher.isLoading
    /\ coint.pc = "idle" => ~coint.isLoading
    /\ run.pc = "idle" => ~bt.isLoading

\* C28: every loading flag that a fetch, an analysis or a backtest has set to
\* true is set to false again, whether the run succeeds, fails or returns
\* through the demo-data fallback, and no flag is true once its run is over.
C28_FlagsReset ==
    /\ []C28_FlagsDownAtRest
    /\ fetcher.isLoading ~> ~fetcher.isLoading
    /\ coint.isLoading ~> ~coint.isLoading
    /\ bt.isLoading ~> ~bt.isLoading

\* a fetch has returned through the demo-data fallback and its flag is down
C28_Witness ==
    /\ toast = Toast("error", "CORS error: Using demo data instead")
    /\ fetcher.pc = "idle"
    /\ ~fetcher.isLoading
    /\ fetcher.stockData # null


(***************************************************************************)
(* The books of a run: the log of the compounding variant, the counters    *)
(* and the cash of the cash variant.                                       *)
(***************************************************************************)
\* the action that closes what the action a opens
ExitOf(a) == IF a = "ENTER_LONG" THEN "EXIT_LONG" ELSE "EXIT_SHORT"

\* C29: during a run of the compounding variant the log alternates entries
\* and exits from an entry on, each EXIT_LONG right after an ENTER_LONG and
\* each EXIT_SHORT right after an ENTER_SHORT, and the entries exceed the
\* exits by 1 while a position is open and by 0 while flat.
C29_LogAlternates ==
    (build.backtest = "compound" /\ run.pc = "loop") =>
        LET log == run.trades
        IN  /\ \A k \in DOMAIN log :
                   IF k % 2 = 1 THEN log[k].action \in {"ENTER_LONG", "ENTER_SHORT"}
                   ELSE log[k].action = ExitOf(log[k - 1].action)
            /\ Cardinality(Entries(log)) - Cardinality(Closes(log))
                   = (IF run.position # 0 THEN 1 ELSE 0)
            /\ (run.position = 1 => log[Len(log)].action = "ENTER_LONG")
            /\ (run.position = 0 - 1 => log[Len(log)].action = "ENTER_SHORT")

\* a run of the compounding variant has opened, closed and opened again
C29_Witness ==
    /\ build.backtest = "compound"
    /\ run.pc = "loop"
    /\ Len(run.trades) >= 3
    /\ run.position # 0


\* the books of the cash variant balance: trades opened and not closed are
\* the position held, wins are among the closes, and the value recorded for
\* the last bar is the cash plus the stake of the position held
C30_BooksBalance ==
    (build.backtest = "cash" /\ run.pc = "loop") =>
        LET closed == Cardinality(PnlRecords(run.trades))
        IN  /\ run.tradeCount - closed = AbsInt(run.position)
            /\ run.position \in {0 - 1, 0, 1}
            /\ run.winningTrades <= closed
            /\ closed <= run.tradeCount
            /\ Len(run.equity) > 0 =>
                   LastValue(run) = Add(run.cash,
                                        Mul(Whole(AbsInt(run.position)),
                                            run.position_size))

\* a bar of the cash variant that changes the cash closes a position
C30_CashMovesOnClose ==
    [][(build.backtest = "cash" /\ BarStep /\ run'.cash # run.cash) =>
          /\ run.position # 0
          /\ run'.position = 0
          /\ Cardinality(PnlRecords(run'.trades))
                 = Cardinality(PnlRecords(run.trades)) + 1]_vars

\* C30: after every bar of the cash variant tradeCount less the closed trades
\* is |position|, which is 0 or 1, so winningTrades <= closed trades <=
\* tradeCount; the cash changes only on a bar that closes a position; and the
\* recorded portfolio value is cash + |position| * positionSize.
C30_CashBooks == []C30_BooksBalance /\ C30_CashMovesOnClose

\* a run of the cash variant has closed a trade with a gain or a loss and
\* opened the next
C30_Witness ==
    /\ build.backtest = "cash"
    /\ run.pc = "loop"
    /\ run.cash # Whole(StartingCash)
    /\ run.position # 0
    /\ PnlRecords(run.trades) # {}


(***************************************************************************)
(* Runs of the backtest that overlap.                                      *)
(***************************************************************************)
\* the locals of a run after n more bars, or after all that are left
RECURSIVE Bars(_, _, _)
Bars(variant, st, n) ==
    IF n = 0 \/ st.i >= Len(st.data) THEN st
    ELSE Bars(variant, BarOf(variant, st), n - 1)

\* the locals of a run that works alone on what it captured, at bar i
Alone(variant, captured, i) ==
    LET start == Locals(variant, captured)
    IN  Bars(variant, start, i - start.i)

\* the run of instance s has its locals, its position, cash, trade list and
\* equity curve among them, as a run alone on what it captured has them at
\* the same bar, and publishes what that run publishes
RunsAsAlone(s) ==
    /\ run[s].pc \in {"loop", "done"} =>
           run[s].st = Alone(build.backtest, run[s].captured, run[s].st.i)
    /\ run[s].pc = "done" =>
           run[s].results = Results(build.backtest,
                                    Alone(build.backtest, run[s].captured,
                                          Len(run[s].st.data)),
                                    run[s].draw)

\* a step of the run of one instance leaves the run of the other as it is
C25_StepsApart ==
    [][\A s \in Instances :
          (run[s].pc \in {"await", "loop"} /\ run'[s].pc \in {"loop", "done"}
               /\ run'[s] # run[s])
              => run'[Other(s)] = run[Other(s)]]_vars

\* C25: two runs of the backtest that overlap, each suspended at its timer,
\* share no state: the position, cash, trade list and equity curve of each
\* evolve as if it ran alone, and each publishes the result of a run alone on
\* the inputs and parameters it captured when it started.
C25_RunsIndependent ==
    /\ [](\A s \in Instances : RunsAsAlone(s))
    /\ C25_StepsApart

\* two runs were suspended at once, with different thresholds, and both have
\* published, the one that started first with a trade
C25_Witness ==
    /\ run.pc = "tabs"
    /\ run.overlapped
    /\ run.mounted.pc = "done"
    /\ run.unmounted.pc = "done"
    /\ run.mounted.captured # run.unmounted.captured
    /\ run.mounted.results # run.unmounted.results
    /\ Len(run.unmounted.st.trades) > 0

====
